---- MODULE Spec2Model ----
(***************************************************************************)
(* Model of heuristics_and_mips/utils.py: the two solution validators      *)
(* (check_valid_solution, check_valid_solution_with_unassigned), the       *)
(* travel-probability builder (f_urban, f_rural, create_travel_dict) and   *)
(* the zip-code partitioning (create_users_facs_by_zip_code_division,      *)
(* create_larger_sets_by_combining_zip_code_starts).                       *)
(*                                                                         *)
(* Three specifications share the module:                                  *)
(*   Spec           calls of the validators on drawn inputs                *)
(*   SpecTravel     create_travel_dict on drawn region types and distances *)
(*   SpecPartition  the two partitioning functions on drawn zip codes      *)
(* The variables of the other two parts stay at their idle value.          *)
(***************************************************************************)
EXTENDS Integers, Sequences, FiniteSets

VARIABLES
    \* ---- validator call (utils.py 163-239) ----
    facs,           \* parameter facs: the facilities considered
    open_facs,      \* parameter open_facs
    users,          \* parameter users
    assignment,     \* parameter assignment: dict user -> facility or sentinel
    budget_factor,  \* parameter budget_factor, a rational <<num, den>>
    strict_res,     \* outcome of check_valid_solution(assignment)
    relaxed_res,    \* outcome of check_valid_solution_with_unassigned(assignment)
    stripped_res,   \* outcome of check_valid_solution on the sentinel-free part
    \* ---- create_travel_dict (utils.py 34-58) ----
    regiotype,      \* column 'regional spatial type' of each user
    centroid,       \* (centroid_lat, centroid_lon) of each user: a coordinate in km
    travel_dict,    \* the dictionary being built
    travel_pc,      \* "idle" | "start" | "done" ("raised" is never set)
    \* ---- partitioning (utils.py 279-326) ----
    zipcode,        \* column 'zipcode' of each record
    part_users,     \* parameter users (a list)
    part_facs,      \* parameter facs (a list)
    division,       \* outcome of create_users_facs_by_zip_code_division
    combined        \* outcome of create_larger_sets_by_combining_zip_code_starts

vars == <<facs, open_facs, users, assignment, budget_factor, strict_res,
          relaxed_res, stripped_res, regiotype, centroid, travel_dict, travel_pc,
          zipcode, part_users, part_facs, division, combined>>

valVars == <<facs, open_facs, users, assignment, budget_factor, strict_res,
             relaxed_res, stripped_res>>
travelVars == <<regiotype, centroid, travel_dict, travel_pc>>
partVars == <<zipcode, part_users, part_facs, division, combined>>

(***************************************************************************)
(* Bounds of the model.                                                    *)
(***************************************************************************)
\* rows of the dataframe that may occur as keys of an assignment
NumUsers == 2
\* rows of the dataframe that may occur as facilities / assignment targets
NumFacRecs == 3

UserRecs == 0 .. (NumUsers - 1)
FacRecs == 0 .. (NumFacRecs - 1)

(***************************************************************************)
(* Exact rational arithmetic (the code computes in binary floating point;  *)
(* every number of the validator model is a small dyadic or a quotient of  *)
(* small integers, so the comparisons the code makes are decided exactly). *)
(***************************************************************************)
Abs(x) == IF x < 0 THEN 0 - x ELSE x

RECURSIVE GCD(_, _)
GCD(a, b) == IF b = 0 THEN a ELSE GCD(b, a % b)

\* the rational n/d (d > 0) in lowest terms
Rat(n, d) == LET g == GCD(Abs(n), d) IN <<n \div g, d \div g>>
RatAdd(p, q) == Rat(p[1] * q[2] + q[1] * p[2], p[2] * q[2])
RatMul(p, q) == Rat(p[1] * q[1], p[2] * q[2])
\* p / q for q > 0
RatDiv(p, q) == Rat(p[1] * q[2], p[2] * q[1])
RatSub(p, q) == Rat(p[1] * q[2] - q[1] * p[2], p[2] * q[2])
RatNeg(p) == p[1] < 0

(***************************************************************************)
(* The input data of a validator call: the dataframe columns and the       *)
(* travel dictionary (read-only, utils.py 185-187).                        *)
(***************************************************************************)
\* users_and_facs_df.at[i, 'population']
Population(i) == IF i % 3 = 2 THEN 1 ELSE 40
\* users_and_facs_df.at[j, 'capacity']; 0 means the row is no facility
Capacity(j) == CASE j % 3 = 0 -> 8
                 [] j % 3 = 1 -> 12
                 [] OTHER -> 0
\* travel_dict[i][j], a probability in (0, 1]
TravelProb(i, j) == Rat(((2 * i + j) % 3) + 1, 4)

\* cap_factor = 1.5, the default of both validators
CapFactorNum == 3
CapFactorDen == 2
cap_factor == Rat(CapFactorNum, CapFactorDen)

\* the "unassigned" sentinel of the relaxed validator, a value that is no row
Unassigned == -1

\* the budget factors drawn: the quarters 0, 1/4, ..., 1 (exact in binary)
BudgetFactors == {<<k, 4>> : k \in 0 .. 4}

(***************************************************************************)
(* Outcome of one validator call.                                          *)
(*   outcome       "none" (not called) | "returned" | "raised"             *)
(*   ret           the returned value: <<TRUE>> or <<FALSE>> (one bare     *)
(*                 boolean); <<>> when nothing was returned                *)
(*   raised        the exception that left the call, or "none"             *)
(*   diag          the message printed                                     *)
(*   not_satisfied the facilities printed with the capacity message        *)
(*   objective     <<v>>, v the rational printed after "Objective: "       *)
(*   evaluated     the checks whose condition was evaluated, in order      *)
(***************************************************************************)
NoResult ==
    [outcome |-> "none", ret |-> <<>>, raised |-> "none", diag |-> "",
     not_satisfied |-> {}, objective |-> <<>>, evaluated |-> <<>>]

Returned(value, msg, bad, obj, checks) ==
    [outcome |-> "returned", ret |-> <<value>>, raised |-> "none", diag |-> msg,
     not_satisfied |-> bad, objective |-> obj, evaluated |-> checks]

Raised(exc, checks) ==
    [outcome |-> "raised", ret |-> <<>>, raised |-> exc, diag |-> "",
     not_satisfied |-> {}, objective |-> <<>>, evaluated |-> checks]

MsgUnassigned == "Some user is not assigned a facility"
MsgClosed == "Some user is assigned to a closed facility"
MsgCapacity == "Capacity constraints not satisfied"
MsgBudget == "Too many facilities open "
MsgObjective == "Objective: "

\* the items of a dict, here in ascending key order (the sums and the
\* KeyError below do not depend on the order of iteration)
RECURSIVE ItemsFrom(_, _)
ItemsFrom(a, keys) ==
    IF keys = {} THEN <<>>
    ELSE LET k == CHOOSE x \in keys : \A y \in keys : x <= y
         IN <<<<k, a[k]>>>> \o ItemsFrom(a, keys \ {k})
Items(a) == ItemsFrom(a, DOMAIN a)

\* a list in list order: sets are enumerated in ascending order
RECURSIVE ListOf(_)
ListOf(S) ==
    IF S = {} THEN <<>>
    ELSE LET k == CHOOSE x \in S : \A y \in S : x <= y
         IN <<k>> \o ListOf(S \ {k})

\* all(i in assignment.keys() for i in users)
AllUsersAssigned(us, a) == \A i \in us : i \in DOMAIN a

\* all(j in open_facs for j in assignment.values())
StrictTargetsOpen(open, a) == \A i \in DOMAIN a : a[i] \in open

\* the relaxed variant without its sentinel clause
RelaxedTargetsOpenNoSentinel(open, a) == \A i \in DOMAIN a : a[i] \in open
\* all(j in open_facs or j == "unassigned" for j in assignment.values())
RelaxedTargetsOpen(open, a) ==
    \A i \in DOMAIN a : a[i] \in open \/ a[i] = Unassigned

\* slacks = {j: cap_factor * capacity(j) for j in facs}
InitialSlacks(fs) == [j \in fs |-> RatMul(cap_factor, Rat(Capacity(j), 1))]

\* the loop over assignment.items(); skip says whether sentinel entries are
\* skipped.  slacks[j] of a j that is no key of slacks raises KeyError.
RECURSIVE SlackLoop(_, _, _)
SlackLoop(slacks, items, skip) ==
    IF items = <<>> THEN [raised |-> "none", slacks |-> slacks]
    ELSE LET i == Head(items)[1]
             j == Head(items)[2]
         IN IF skip /\ j = Unassigned
            THEN SlackLoop(slacks, Tail(items), skip)
            ELSE IF j \notin DOMAIN slacks
                 THEN [raised |-> "KeyError", slacks |-> slacks]
                 ELSE SlackLoop(
                        [slacks EXCEPT ![j] =
                            RatSub(slacks[j],
                                   RatMul(Rat(Population(i), 1), TravelProb(i, j)))],
                        Tail(items), skip)

\* [j for j in facs if slacks[j] < 0]
NotSatisfied(fs, slacks) == {j \in fs : RatNeg(slacks[j])}

\* Python's round() of the exact quotient num/den (den > 0, num >= 0):
\* the nearest integer, a tie going to the even neighbour
RoundHalfUp(num, den) == (2 * num + den) \div (2 * den)
round(num, den) ==
    LET q == num \div den
        r == num % den
    IN IF 2 * r < den THEN q
       ELSE IF 2 * r > den THEN q + 1
       ELSE IF q % 2 = 0 THEN q ELSE q + 1

\* len(open_facs) > round(budget_factor * len(facs))
TooManyOpen(fs, open, bf) ==
    Cardinality(open) > round(bf[1] * Cardinality(fs), bf[2])

\* a term without the square
ObjectiveTermLinear(j, slack) ==
    LET c == RatMul(cap_factor, Rat(Capacity(j), 1))
    IN RatMul(c, RatDiv(slack, c))
\* cap_factor*capacity(j) * (slacks[j] / (cap_factor*capacity(j)))**2
ObjectiveTerm(j, slack) ==
    LET c == RatMul(cap_factor, Rat(Capacity(j), 1))
        u == RatDiv(slack, c)
    IN RatMul(c, RatMul(u, u))

\* sum(... for j in facs)
RECURSIVE ObjectiveSum(_, _)
ObjectiveSum(fl, slacks) ==
    IF fl = <<>> THEN Rat(0, 1)
    ELSE RatAdd(ObjectiveTerm(Head(fl), slacks[Head(fl)]),
                ObjectiveSum(Tail(fl), slacks))

CkComplete == "completeness"
CkTarget == "target"
CkCapacity == "capacity"
CkBudget == "budget"
CheckOrder == <<CkComplete, CkTarget, CkCapacity, CkBudget>>

\* lines 184-199 / 223-239, common to both variants up to the sentinel skip
CapacityBudgetObjective(fs, open, a, bf, skip) ==
    LET run == SlackLoop(InitialSlacks(fs), Items(a), skip)
    IN IF run.raised # "none"
       THEN Raised(run.raised, SubSeq(CheckOrder, 1, 3))
       ELSE LET bad == NotSatisfied(fs, run.slacks)
            IN IF bad # {}
               THEN Returned(FALSE, MsgCapacity, bad, <<>>, SubSeq(CheckOrder, 1, 3))
               ELSE IF TooManyOpen(fs, open, bf)
                    THEN Returned(FALSE, MsgBudget, {}, <<>>, CheckOrder)
                    ELSE Returned(TRUE, MsgObjective, {},
                                  <<ObjectiveSum(ListOf(fs), run.slacks)>>,
                                  CheckOrder)

check_valid_solution(fs, open, us, a, bf) ==
    IF ~AllUsersAssigned(us, a)
    THEN Returned(FALSE, MsgUnassigned, {}, <<>>, SubSeq(CheckOrder, 1, 1))
    ELSE IF ~StrictTargetsOpen(open, a)
         THEN Returned(FALSE, MsgClosed, {}, <<>>, SubSeq(CheckOrder, 1, 2))
         ELSE CapacityBudgetObjective(fs, open, a, bf, FALSE)

check_valid_solution_with_unassigned(fs, open, us, a, bf) ==
    IF ~AllUsersAssigned(us, a)
    THEN Returned(FALSE, MsgUnassigned, {}, <<>>, SubSeq(CheckOrder, 1, 1))
    ELSE IF ~RelaxedTargetsOpen(open, a)
         THEN Returned(FALSE, MsgClosed, {}, <<>>, SubSeq(CheckOrder, 1, 2))
         ELSE CapacityBudgetObjective(fs, open, a, bf, TRUE)

(***************************************************************************)
(* The validator specification.                                            *)
(***************************************************************************)
\* the rows with a capacity: load_an_instance keeps facs among them
Facilities == {j \in FacRecs : Capacity(j) > 0}

Assignments ==
    UNION {[K -> FacRecs \cup {Unassigned}] : K \in SUBSET UserRecs}

\* the users mapped to the sentinel, and the assignment without them
SentinelUsers(a) == {i \in DOMAIN a : a[i] = Unassigned}
Strip(a) == [i \in (DOMAIN a) \ SentinelUsers(a) |-> a[i]]

TravelIdle ==
    /\ regiotype = <<>>
    /\ centroid = <<>>
    /\ travel_dict = <<>>
    /\ travel_pc = "idle"

PartIdle ==
    /\ zipcode = <<>>
    /\ part_users = <<>>
    /\ part_facs = <<>>
    /\ division = <<>>
    /\ combined = <<>>

ValIdle ==
    /\ facs = {}
    /\ open_facs = {}
    /\ users = {}
    /\ assignment = <<>>
    /\ budget_factor = <<0, 1>>
    /\ strict_res = NoResult
    /\ relaxed_res = NoResult
    /\ stripped_res = NoResult

\* an instance has at least one facility and one user
Init ==
    /\ facs \in (SUBSET Facilities) \ {{}}
    /\ open_facs \in SUBSET FacRecs
    /\ users \in (SUBSET UserRecs) \ {{}}
    /\ assignment \in Assignments
    /\ budget_factor \in BudgetFactors
    /\ strict_res = NoResult
    /\ relaxed_res = NoResult
    /\ stripped_res = NoResult
    /\ TravelIdle
    /\ PartIdle

CallStrict ==
    /\ strict_res = NoResult
    /\ strict_res' = check_valid_solution(facs, open_facs, users, assignment,
                                          budget_factor)
    /\ UNCHANGED <<facs, open_facs, users, assignment, budget_factor,
                   relaxed_res, stripped_res, travelVars, partVars>>

CallRelaxed ==
    /\ strict_res # NoResult
    /\ relaxed_res = NoResult
    /\ relaxed_res' = check_valid_solution_with_unassigned(
                          facs, open_facs, users, assignment, budget_factor)
    /\ UNCHANGED <<facs, open_facs, users, assignment, budget_factor,
                   strict_res, stripped_res, travelVars, partVars>>

\* the strict validator on the assignment with its sentinel entries removed,
\* asked about the users that are still assigned.  A batch of candidate
\* solutions is validated one call after the other, so the three calls on
\* one input happen in this order.
CallStrictOnStripped ==
    /\ relaxed_res # NoResult
    /\ stripped_res = NoResult
    /\ stripped_res' = check_valid_solution(
                           facs, open_facs, users \ SentinelUsers(assignment),
                           Strip(assignment), budget_factor)
    /\ UNCHANGED <<facs, open_facs, users, assignment, budget_factor,
                   strict_res, relaxed_res, travelVars, partVars>>

Next == CallStrict \/ CallRelaxed \/ CallStrictOnStripped

Spec == Init /\ [][Next]_vars

(***************************************************************************)
(* What the specification says of a call, stated on the inputs alone.      *)
(***************************************************************************)
\* the calls made so far: variant, the users and assignment passed, outcome
Calls ==
    {c \in {[variant |-> "strict", us |-> users, a |-> assignment,
             res |-> strict_res],
            [variant |-> "relaxed", us |-> users, a |-> assignment,
             res |-> relaxed_res],
            [variant |-> "strict", us |-> users \ SentinelUsers(assignment),
             a |-> Strip(assignment), res |-> stripped_res]} :
        c.res.outcome # "none"}

\* sum of population(i) * travel_matrix[i][j] over a set of users
RECURSIVE Demand(_, _)
Demand(S, j) ==
    IF S = {} THEN Rat(0, 1)
    ELSE LET i == CHOOSE x \in S : TRUE
         IN RatAdd(RatMul(Rat(Population(i), 1), TravelProb(i, j)),
                   Demand(S \ {i}, j))

\* slack(j) = cap_factor * capacity(j) - sum over the users assigned to j
SlackOf(j, a) ==
    RatSub(Rat(CapFactorNum * Capacity(j), CapFactorDen),
           Demand({i \in DOMAIN a : a[i] = j}, j))

MissingAssignment(c) == \E i \in c.us : i \notin DOMAIN c.a
InvalidTarget(c) ==
    \E i \in DOMAIN c.a :
        /\ c.a[i] \notin open_facs
        /\ ~(c.variant = "relaxed" /\ c.a[i] = Unassigned)
CapacityExceeded(c) == \E j \in open_facs : RatNeg(SlackOf(j, c.a))

\* the integers nearest to num/den
Nearest(num, den) ==
    {n \in 0 .. (num \div den) + 1 : Abs(2 * num - 2 * n * den) <= den}
\* the nearest integer, the even one of two
NearestTiesEven(num, den) ==
    CHOOSE n \in Nearest(num, den) :
        Cardinality(Nearest(num, den)) = 1 \/ n % 2 = 0
\* the nearest integer, the upper one of two
NearestTiesUp(num, den) ==
    CHOOSE n \in Nearest(num, den) : \A m \in Nearest(num, den) : m <= n

BudgetProduct == budget_factor[1] * Cardinality(facs)
BudgetExceeded ==
    Cardinality(open_facs) > NearestTiesEven(BudgetProduct, budget_factor[2])

\* the positions in CheckOrder of the violated checks.  The capacity and
\* budget conditions are defined on every input, whatever the earlier ones.
Violated(c) ==
    {k \in 1 .. 4 : \/ k = 1 /\ MissingAssignment(c)
                    \/ k = 2 /\ InvalidTarget(c)
                    \/ k = 3 /\ CapacityExceeded(c)
                    \/ k = 4 /\ BudgetExceeded}

\* the earliest violated check, 0 when none is
EarliestViolated(c) ==
    IF Violated(c) = {} THEN 0
    ELSE CHOOSE k \in Violated(c) : \A m \in Violated(c) : k <= m

MsgOf(k) == <<MsgUnassigned, MsgClosed, MsgCapacity, MsgBudget>>[k]

IsPrefixOfOrder(s) == Len(s) <= Len(CheckOrder) /\ s = SubSeq(CheckOrder, 1, Len(s))

\* C1: in both variants the checks run in the order completeness, target
\* validity, capacity, budget, and for every input that violates several
\* checks at once the call reports the earliest violated check and evaluates
\* no later one.
C1_EarliestViolatedReported ==
    \A c \in Calls :
        /\ IsPrefixOfOrder(c.res.evaluated)
        /\ Cardinality(Violated(c)) >= 2 =>
              /\ c.res.ret = <<FALSE>>
              /\ c.res.diag = MsgOf(EarliestViolated(c))
              /\ Len(c.res.evaluated) = EarliestViolated(c)

\* C2: when completeness and target validity pass, the call fails with the
\* capacity message iff some open facility has negative slack, and the
\* facilities it reports are exactly the open facilities with negative slack.
C2_CapacityFailureIffNegativeSlack ==
    \A c \in Calls :
        (~MissingAssignment(c) /\ ~InvalidTarget(c)) =>
            /\ (c.res.diag = MsgCapacity /\ c.res.ret = <<FALSE>>)
                   <=> CapacityExceeded(c)
            /\ c.res.diag = MsgCapacity =>
                   c.res.not_satisfied =
                       {j \in open_facs : RatNeg(SlackOf(j, c.a))}

\* C3: a call never raises; each violated constraint is reported by
\* returning a false result.
C3_NeverRaises ==
    \A c \in Calls :
        /\ c.res.outcome = "returned"
        /\ EarliestViolated(c) # 0 => c.res.ret = <<FALSE>>

ReachedBudget(c) == Len(c.res.evaluated) = Len(CheckOrder)

\* C4 (as amended): when completeness, target validity and capacity pass, the
\* call returns valid iff the number of open facilities is at most
\* budget_factor * len(facs) rounded to the nearest integer with a tie going
\* to the even neighbour.
C4_BudgetRoundsHalfToEven ==
    \A c \in Calls :
        ReachedBudget(c) =>
            (c.res.ret = <<TRUE>> <=>
                Cardinality(open_facs)
                    <= NearestTiesEven(BudgetProduct, budget_factor[2]))

\* C4 as stated: rounding to the nearest integer, a tie rounded up.
C4_BudgetRoundsToNearest ==
    \A c \in Calls :
        ReachedBudget(c) =>
            (c.res.ret = <<TRUE>> <=>
                Cardinality(open_facs)
                    <= NearestTiesUp(BudgetProduct, budget_factor[2]))

\* a call reached the budget check with budget_factor * len(facs) exactly
\* halfway between two integers, and the tie decided the verdict
C4_Witness ==
    \E c \in Calls :
        /\ ReachedBudget(c)
        /\ Cardinality(Nearest(BudgetProduct, budget_factor[2])) = 2
        /\ Cardinality(open_facs) = NearestTiesUp(BudgetProduct, budget_factor[2])
        /\ c.res.ret = <<FALSE>>

\* sum over a set of facilities of
\* cap_factor * capacity(j) * (slack(j) / (cap_factor * capacity(j)))^2,
\* which is slack(j)^2 / (cap_factor * capacity(j))
RECURSIVE ObjectiveOver(_, _)
ObjectiveOver(S, a) ==
    IF S = {} THEN Rat(0, 1)
    ELSE LET j == CHOOSE x \in S : TRUE
             s == SlackOf(j, a)
         IN RatAdd(RatDiv(RatMul(s, s),
                          Rat(CapFactorNum * Capacity(j), CapFactorDen)),
                   ObjectiveOver(S \ {j}, a))

\* C5 (as amended): a call that returns returns one bare boolean; on success
\* it is True and the objective, summed over all facilities of facs, is
\* printed only; on a reported failure it is False and no objective is
\* printed.
C5_ReturnsBareBooleanPrintsObjective ==
    \A c \in Calls :
        c.res.outcome = "returned" =>
            /\ Len(c.res.ret) = 1
            /\ c.res.ret[1] \in BOOLEAN
            /\ c.res.ret = <<TRUE>> =>
                   /\ EarliestViolated(c) = 0
                   /\ c.res.diag = MsgObjective
                   /\ c.res.objective = <<ObjectiveOver(facs, c.a)>>
            /\ c.res.ret = <<FALSE>> => c.res.objective = <<>>

\* C5 as stated: on success the call returns the pair (True, objective), the
\* objective summed over the open facilities.
C5_ReturnsPairWithObjective ==
    \A c \in Calls :
        (c.res.outcome = "returned" /\ c.res.ret[1]) =>
            /\ Len(c.res.ret) = 2
            /\ c.res.ret[2] = ObjectiveOver(open_facs, c.a)

\* a successful call on two facilities, one of them closed, with users
\* assigned
C5_Witness ==
    \E c \in Calls :
        /\ c.res.ret = <<TRUE>>
        /\ Cardinality(facs) = 2
        /\ open_facs # facs
        /\ DOMAIN c.a # {}
        /\ c.res.objective # <<Rat(0, 1)>>

\* C9: the relaxed validator's outcome on an assignment is the strict
\* validator's outcome on the assignment without its sentinel entries (asked
\* about the users still assigned), and on an assignment without sentinel
\* entries the strict and the relaxed validator have the same outcome.
C9_RelaxedIsStrictModuloSentinel ==
    /\ (relaxed_res # NoResult /\ stripped_res # NoResult) =>
           relaxed_res = stripped_res
    /\ (strict_res # NoResult /\ relaxed_res # NoResult
           /\ SentinelUsers(assignment) = {}) =>
           strict_res = relaxed_res

\* the relaxed validator got past the target check on an assignment with a
\* sentinel entry and an assigned user, and the stripped call was made
C9_Witness ==
    /\ SentinelUsers(assignment) # {}
    /\ SentinelUsers(assignment) # DOMAIN assignment
    /\ users # {}
    /\ Len(relaxed_res.evaluated) >= 3
    /\ stripped_res # NoResult
    /\ strict_res.diag = MsgClosed

(***************************************************************************)
(* Access probabilities (utils.py 20-31) in fixed point.                   *)
(* A real x is held as the integer floor(x * Scale), Scale = 10^6.  exp    *)
(* and ** are evaluated by their series; every product is floored, so a    *)
(* value carries an error of a few units of the last place per term of the *)
(* series, below FixErr in all (the values agree with the double-precision *)
(* ones of the code to within 2 * 10^-5 on the distances of the model).    *)
(***************************************************************************)
K == 10 * 10 * 10
Scale == K * K
\* bound on the error of a fixed-point value of this section: 10^-4
FixErr == 10 * 10

\* terms of the exponential series and of the logarithm series
ExpTerms == 24
LnTerms == 40

\* floor(a * b / Scale) for a, b >= 0, without leaving 32 bits
MulFix(a, b) ==
    LET ah == a \div K
        al == a % K
        bh == b \div K
        bl == b % K
        mid == ah * bl + al * bh
    IN ah * bh + (mid \div K) + (((mid % K) * K + al * bl) \div Scale)

\* the terms x^n / n! of the exponential series from n = k on, term being
\* x^(k-1) / (k-1)!; alt makes the signs alternate (the series of exp(-x))
RECURSIVE ExpSeries(_, _, _, _)
ExpSeries(x, term, k, alt) ==
    IF k > ExpTerms \/ term = 0 THEN 0
    ELSE LET t == MulFix(term, x) \div k
         IN (IF alt /\ k % 2 = 1 THEN 0 - t ELSE t) + ExpSeries(x, t, k + 1, alt)

\* exp(x), x >= 0
ExpPos(x) == Scale + ExpSeries(x, Scale, 1, FALSE)
\* exp(-x), x >= 0: the alternating series
ExpNeg(x) == Scale + ExpSeries(x, Scale, 1, TRUE)

\* sum of y^(2k+1)/(2k+1) from k on, pw = y^(2k+1)
RECURSIVE AtanhSeries(_, _, _)
AtanhSeries(pw, ysq, k) ==
    IF k > LnTerms \/ pw = 0 THEN 0
    ELSE (pw \div (2 * k + 1)) + AtanhSeries(MulFix(pw, ysq), ysq, k + 1)

\* ln(d) for an integer d >= 1: 2 * atanh((d - 1) / (d + 1))
Ln(d) ==
    LET y == ((d - 1) * Scale) \div (d + 1)
    IN 2 * AtanhSeries(y, MulFix(y, y), 0)

\* d ** a for an integer d >= 0 and 0 < a < 1: 0 ** a = 0, else exp(a * ln d)
Pow(d, a) == IF d = 0 THEN 0 ELSE ExpPos(MulFix(a, Ln(d)))

\* the constants of f_urban and f_rural, times Scale
UrbanNearRate == 255089
UrbanNearExp == 867453
UrbanFarScale == 4639451
UrbanFarRate == 1498952
UrbanFarExp == 328878
RuralNearRate == 249901
RuralNearExp == 820106
RuralFarScale == 1611491
RuralFarRate == 688722
RuralFarExp == 436523
\* the distance at which both curves change branch
Boundary == 5

\* the branch of f_urban for d < 5, and the one for d >= 5
UrbanNear(d) == ExpNeg(MulFix(UrbanNearRate, Pow(d, UrbanNearExp)))
UrbanFar(d) == MulFix(UrbanFarScale, ExpNeg(MulFix(UrbanFarRate, Pow(d, UrbanFarExp))))
\* the branch of f_rural for d < 5, and the one for d >= 5
RuralNear(d) == ExpNeg(MulFix(RuralNearRate, Pow(d, RuralNearExp)))
RuralFar(d) == MulFix(RuralFarScale, ExpNeg(MulFix(RuralFarRate, Pow(d, RuralFarExp))))

\* f_urban with the boundary distance put in the near branch
f_urban_boundary_near(d) == IF d <= Boundary THEN UrbanNear(d) ELSE UrbanFar(d)
f_urban(d) == IF d < Boundary THEN UrbanNear(d) ELSE UrbanFar(d)
f_rural(d) == IF d < Boundary THEN RuralNear(d) ELSE RuralFar(d)

(***************************************************************************)
(* create_travel_dict (utils.py 34-58).  Users and facilities lie on a     *)
(* line, a coordinate being a whole number of km; distance.distance(...)   *)
(* .km is the difference of the two coordinates.                           *)
(***************************************************************************)
\* users and facilities of the instance the dictionary is built for
NumTravelUsers == 2
NumTravelFacs == 1
\* largest user coordinate (km)
MaxCoord == 6

TravelUsers == 0 .. (NumTravelUsers - 1)
TravelFacs == 0 .. (NumTravelFacs - 1)
\* what the column 'regional spatial type' may hold
RegionTypes == {"urban", "rural", "suburban"}

\* (rc_centroid_lat, rc_centroid_lon) of facility j
FacCoord(j) == 2 * j
\* distance.distance((lat_1, lon_1), (lat_2, lon_2)).km
Distance(x, y) == Abs(x - y)

\* the body of the loop over facs for one user: the dictionary row of user i
TravelRow(rtype, coord) ==
    [j \in TravelFacs |->
        IF rtype = "urban" THEN f_urban(Distance(coord, FacCoord(j)))
        ELSE f_rural(Distance(coord, FacCoord(j)))]

InitTravel ==
    /\ regiotype \in [TravelUsers -> RegionTypes]
    /\ centroid \in [TravelUsers -> 0 .. MaxCoord]
    /\ travel_dict = <<>>
    /\ travel_pc = "start"
    /\ ValIdle
    /\ PartIdle

\* the whole call: the dictionary is filled for every user and facility and
\* saved; no path of the function raises on a region type
CreateTravelDict ==
    /\ travel_pc = "start"
    /\ travel_dict' = [i \in TravelUsers |-> TravelRow(regiotype[i], centroid[i])]
    /\ travel_pc' = "done"
    /\ UNCHANGED <<regiotype, centroid, valVars, partVars>>

NextTravel == CreateTravelDict

SpecTravel == InitTravel /\ [][NextTravel]_vars

TravelBuilt == travel_pc = "done"

\* C6: a user whose region type is neither urban nor rural makes the build
\* fail: no probability of either curve is written for that user.
C6_UnknownRegionTypeRejected ==
    travel_pc # "start" =>
        /\ (\E i \in TravelUsers : regiotype[i] \notin {"urban", "rural"}) =>
               travel_pc = "raised"
        /\ \A i \in TravelUsers :
               regiotype[i] \notin {"urban", "rural"} =>
                   i \notin DOMAIN travel_dict

\* the entries of the dictionary computed at the boundary distance, with the
\* value of the other (d < 5) branch formula at that distance
BoundaryGaps ==
    {Abs(travel_dict[i][j]
         - (IF regiotype[i] = "urban" THEN UrbanNear(Boundary)
            ELSE RuralNear(Boundary))) :
        <<i, j>> \in {p \in TravelUsers \X TravelFacs :
                         Distance(centroid[p[1]], FacCoord(p[2])) = Boundary}}

\* C10 (as amended): at d = 5 the value of the d < 5 branch and the value
\* of the d >= 5 branch, which is the one the dictionary holds, differ by
\* less than 1e-2 and by more than 1e-3, for the urban and the rural curve.
C10_BranchesWithinOneHundredth ==
    TravelBuilt =>
        \A g \in BoundaryGaps :
            /\ g + FixErr < Scale \div 100
            /\ g - FixErr > Scale \div 1000

\* C10 as stated: the two branch values at d = 5 differ by less than 1e-3.
C10_BranchesWithinOneThousandth ==
    TravelBuilt => \A g \in BoundaryGaps : g < Scale \div 1000

\* a dictionary built with an urban and a rural user at the boundary distance
C10_Witness ==
    /\ TravelBuilt
    /\ \E i, k \in TravelUsers :
          /\ regiotype[i] = "urban"
          /\ regiotype[k] = "rural"
          /\ Distance(centroid[i], FacCoord(0)) = Boundary
          /\ Distance(centroid[k], FacCoord(0)) = Boundary

(***************************************************************************)
(* Partitioning by zip code (utils.py 279-326).                            *)
(***************************************************************************)
\* rows of the dataframe the partition is asked about
NumZipRecs == 3
ZipRecs == 0 .. (NumZipRecs - 1)
\* what the column 'zipcode' may hold (integers, as read from the CSV file)
ZipCodes == {7, 10115, 63739, 90402, 91056}

Range(s) == {s[k] : k \in DOMAIN s}

\* str(n) for n >= 0: the decimal digits, most significant first
RECURSIVE Str(_)
Str(n) == IF n < 10 THEN <<n>> ELSE Str(n \div 10) \o <<n % 10>>

\* int(s) of a string of decimal digits
RECURSIVE IntOf(_)
IntOf(s) ==
    IF s = <<>> THEN 0
    ELSE 10 * IntOf(SubSeq(s, 1, Len(s) - 1)) + s[Len(s)]

\* str(users_and_facs_df.at[i, "zipcode"])[0:2]
ZipStart(zc, i) ==
    LET s == Str(zc[i]) IN SubSeq(s, 1, IF Len(s) < 2 THEN Len(s) ELSE 2)

\* the first loop: the starts of the users' zip codes, in order of first
\* occurrence
RECURSIVE ZipCodesStarts(_, _, _)
ZipCodesStarts(zc, us, starts) ==
    IF us = <<>> THEN starts
    ELSE ZipCodesStarts(zc, Tail(us),
                        IF ZipStart(zc, Head(us)) \in Range(starts) THEN starts
                        ELSE Append(starts, ZipStart(zc, Head(us))))

\* for i in list: split[start of i].append(i); a start that is no key of
\* split raises KeyError
RECURSIVE SplitLoop(_, _, _)
SplitLoop(zc, list, split) ==
    IF list = <<>> THEN [raised |-> "none", split |-> split]
    ELSE LET st == ZipStart(zc, Head(list))
         IN IF st \notin DOMAIN split
            THEN [raised |-> "KeyError", split |-> split]
            ELSE SplitLoop(zc, Tail(list),
                           [split EXCEPT ![st] = Append(@, Head(list))])

NoDivision ==
    [outcome |-> "none", raised |-> "none", starts |-> <<>>,
     split_users |-> <<>>, split_facs |-> <<>>]

create_users_facs_by_zip_code_division(zc, us, fs) ==
    LET starts == ZipCodesStarts(zc, us, <<>>)
        empty == [st \in Range(starts) |-> <<>>]
        su == SplitLoop(zc, us, empty)
        sf == SplitLoop(zc, fs, empty)
    IN IF su.raised # "none" \/ sf.raised # "none"
       THEN [outcome |-> "raised", raised |-> "KeyError", starts |-> <<>>,
             split_users |-> <<>>, split_facs |-> <<>>]
       ELSE [outcome |-> "returned", raised |-> "none", starts |-> starts,
             split_users |-> su.split, split_facs |-> sf.split]

\* combined_zip_codes: the five groups, in the order of the dict literal
CombinedKeys ==
    <<"63, 97, 96, 95", "90, 91, 92", "93, 94", "80, 81, 82, 83, 84, 85",
      "86, 87,88, 89">>
CombinedZipCodes ==
    <<{63, 97, 96, 95}, {90, 91, 92}, {93, 94}, {80, 81, 82, 83, 84, 85},
      {86, 87, 88, 89}>>
Groups == DOMAIN CombinedKeys

\* for key, value in split.items(): for every group with int(key) in it:
\* split_combined[group].extend(value)
RECURSIVE CombineLoop(_, _, _)
CombineLoop(starts, split, acc) ==
    IF starts = <<>> THEN acc
    ELSE CombineLoop(Tail(starts), split,
            [g \in Groups |->
                IF IntOf(Head(starts)) \in CombinedZipCodes[g]
                THEN acc[g] \o split[Head(starts)]
                ELSE acc[g]])

NoCombined ==
    [outcome |-> "none", raised |-> "none", users |-> <<>>, facs |-> <<>>]

create_larger_sets_by_combining_zip_code_starts(zc, us, fs) ==
    LET d == create_users_facs_by_zip_code_division(zc, us, fs)
        empty == [g \in Groups |-> <<>>]
    IN IF d.outcome = "raised"
       THEN [outcome |-> "raised", raised |-> d.raised, users |-> <<>>,
             facs |-> <<>>]
       ELSE [outcome |-> "returned", raised |-> "none",
             users |-> CombineLoop(d.starts, d.split_users, empty),
             facs |-> CombineLoop(d.starts, d.split_facs, empty)]

\* an instance has at least one user
InitPartition ==
    /\ zipcode \in [ZipRecs -> ZipCodes]
    /\ part_users \in {ListOf(U) : U \in (SUBSET ZipRecs) \ {{}}}
    /\ part_facs \in {ListOf(F) : F \in SUBSET ZipRecs}
    /\ division = NoDivision
    /\ combined = NoCombined
    /\ ValIdle
    /\ TravelIdle

Divide ==
    /\ division = NoDivision
    /\ division' = create_users_facs_by_zip_code_division(zipcode, part_users,
                                                          part_facs)
    /\ UNCHANGED <<zipcode, part_users, part_facs, combined, valVars, travelVars>>

Combine ==
    /\ combined = NoCombined
    /\ combined' = create_larger_sets_by_combining_zip_code_starts(
                       zipcode, part_users, part_facs)
    /\ UNCHANGED <<zipcode, part_users, part_facs, division, valVars, travelVars>>

NextPartition == Divide \/ Combine

SpecPartition == InitPartition /\ [][NextPartition]_vars

\* the lists of a dict of lists, one after the other, in the order of keys
RECURSIVE Flatten(_, _)
Flatten(keys, d) ==
    IF keys = <<>> THEN <<>> ELSE d[Head(keys)] \o Flatten(Tail(keys), d)

Count(s, x) == Cardinality({k \in DOMAIN s : s[k] = x})
IsPermutation(s, t) ==
    /\ Len(s) = Len(t)
    /\ \A x \in Range(s) \cup Range(t) : Count(s, x) = Count(t, x)

\* C7: the division completes on every user list and facility list, the
\* groups' user lists together are a permutation of users, the groups'
\* facility lists a permutation of facs, and each index is in the group of
\* its own zip prefix.
C7_DivisionIsPartition ==
    division.outcome # "none" =>
        /\ division.outcome = "returned"
        /\ IsPermutation(Flatten(division.starts, division.split_users),
                         part_users)
        /\ IsPermutation(Flatten(division.starts, division.split_facs),
                         part_facs)
        /\ \A st \in Range(division.starts) :
               \A i \in Range(division.split_users[st])
                        \cup Range(division.split_facs[st]) :
                   ZipStart(zipcode, i) = st

\* C8: the five combined groups together hold every user and every
\* facility exactly once, whatever its zip prefix.
C8_CombinedIsPartition ==
    combined.outcome # "none" =>
        /\ combined.outcome = "returned"
        /\ IsPermutation(Flatten(ListOf(Groups), combined.users), part_users)
        /\ IsPermutation(Flatten(ListOf(Groups), combined.facs), part_facs)

====
